---- MODULE Spec2Model ----
(***************************************************************************)
(* Server monitoring plugin (server_monitoring.py) and its health-check    *)
(* handler (handler.py).                                                   *)
(*                                                                         *)
(* A Python str is a sequence of one-character strings, so that strip(),   *)
(* lower(), upper() and int() are computed, not assumed.  A Python dict is *)
(* a function whose domain is its set of keys.  The outcome of a call is   *)
(* either a returned value or a raised exception.                          *)
(***************************************************************************)
EXTENDS Integers, Sequences, FiniteSets, TLC

VARIABLES
    store,      \* the config store's MONITORING_SERVERS entry (context.get_env/set_env)
    handler,    \* ServerMonitoringPlugin._handler
    net,        \* the network the probes run against
    last,       \* the last completed call: its name, its input and its outcome
    hist,       \* what the run so far has shown: the last two polling passes
                \* (verdicts of the targets, outcome), the names the current
                \* handler's passes have observed, the names edited since the
                \* last pass, whether the status was queried since the last
                \* pass, the outcomes of the last two status queries when
                \* nothing else has happened since
    threads     \* the calls in progress, one per host thread: where each is
                \* in its code and the values of its local variables

vars == <<store, handler, net, last, hist, threads>>

----------------------------------------------------------------------------
(* Bounds of the model *)

\* longest stored MONITORING_SERVERS text, in tokens
MaxRawLen == 5
\* longest target list handed to a handler directly
MaxTargets == 2
\* longest registry an administrative call is made on in SpecAdmin
MaxServers == 2
\* longest registry of the polled plugin in Spec
MaxPolled == 1

----------------------------------------------------------------------------
(* Python values *)

\* Python None / JSON null where a str is expected: no str has a
\* multi-character element
None == <<"None">>

Returned(v) == [kind |-> "return", value |-> v]

Raised(e) == [kind |-> "raise", exc |-> e]

\* dict.get(key, default)
Get(d, key, default) == IF key \in DOMAIN d THEN d[key] ELSE default

Uppers == <<"A", "B", "C", "D", "E", "F", "G", "H", "I", "J", "K", "L", "M",
            "N", "O", "P", "Q", "R", "S", "T", "U", "V", "W", "X", "Y", "Z">>

Lowers == <<"a", "b", "c", "d", "e", "f", "g", "h", "i", "j", "k", "l", "m",
            "n", "o", "p", "q", "r", "s", "t", "u", "v", "w", "x", "y", "z">>

LowerChar(c) ==
    IF \E i \in 1..26 : Uppers[i] = c
    THEN Lowers[CHOOSE i \in 1..26 : Uppers[i] = c]
    ELSE c

UpperChar(c) ==
    IF \E i \in 1..26 : Lowers[i] = c
    THEN Uppers[CHOOSE i \in 1..26 : Lowers[i] = c]
    ELSE c

\* str.lower()
Lower(s) == [i \in 1..Len(s) |-> LowerChar(s[i])]

\* str.upper()
Upper(s) == [i \in 1..Len(s) |-> UpperChar(s[i])]

RECURSIVE LStrip(_)
LStrip(s) == IF s # <<>> /\ Head(s) = " " THEN LStrip(Tail(s)) ELSE s

RECURSIVE RStrip(_)
RStrip(s) ==
    IF s # <<>> /\ s[Len(s)] = " " THEN RStrip(SubSeq(s, 1, Len(s) - 1)) ELSE s

\* str.strip()
Strip(s) == RStrip(LStrip(s))

Digits == <<"0", "1", "2", "3", "4", "5", "6", "7", "8", "9">>

IsDigit(c) == \E i \in 1..10 : Digits[i] = c

DigitValue(c) == (CHOOSE i \in 1..10 : Digits[i] = c) - 1

RECURSIVE DigitsValue(_)
DigitsValue(s) ==
    IF s = <<>> THEN 0
    ELSE 10 * DigitsValue(SubSeq(s, 1, Len(s) - 1)) + DigitValue(s[Len(s)])

\* whether int(s) returns: blanks around an optional sign and one or more digits
IntParses(s) ==
    LET t == Strip(s)
        u == IF t # <<>> /\ Head(t) \in {"+", "-"} THEN Tail(t) ELSE t
    IN  u # <<>> /\ \A i \in 1..Len(u) : IsDigit(u[i])

\* int(s), for an s that parses
IntOf(s) ==
    LET t == Strip(s)
    IN  IF Head(t) = "-" THEN 0 - DigitsValue(Tail(t))
        ELSE IF Head(t) = "+" THEN DigitsValue(Tail(t))
        ELSE DigitsValue(t)

----------------------------------------------------------------------------
(* JSON text.  A text is a sequence of tokens: the characters that decide  *)
(* whether it parses, and whole objects "{...}" standing for one dict.     *)

Tok(c) == [c |-> c]

ObjTok(d) == [c |-> "{", obj |-> d]

SQ == Tok("'")
DQ == Tok("\"")
LB == Tok("[")
RB == Tok("]")
COMMA == Tok(",")
JUNK == Tok("x")

\* a list element that is no dict (a string, a nested list)
NonDict(k) == [nondict |-> k]

IsDict(v) == "nondict" \notin DOMAIN v

\* json.dumps of one list element: an object, a string, a list
DumpsItem(v) ==
    IF IsDict(v) THEN <<ObjTok(v)>>
    ELSE IF v = NonDict("string") THEN <<DQ, DQ>>
    ELSE <<LB, RB>>

RECURSIVE DumpsItems(_)
DumpsItems(servers) ==
    IF servers = <<>> THEN <<>>
    ELSE IF Len(servers) = 1 THEN DumpsItem(servers[1])
    ELSE DumpsItem(servers[1]) \o <<COMMA>> \o DumpsItems(Tail(servers))

\* json.dumps(servers)
Dumps(servers) == <<LB>> \o DumpsItems(servers) \o <<RB>>

ParseFail == [ok |-> FALSE]

\* The index of the double quote closing the string opened at i - 1, or 0
\* when the text is no JSON from there on: the string is not closed, or it
\* is closed by the first double quote inside an object's text
RECURSIVE StringEnd(_, _)
StringEnd(raw, i) ==
    IF i > Len(raw) THEN 0
    ELSE IF raw[i] = DQ THEN i
    ELSE IF raw[i].c = "{" THEN 0
    ELSE StringEnd(raw, i + 1)

\* One JSON value starting at token i: [ok, list, val, next].  `list` says
\* whether the value is a list, `val` is the list (its elements) or the
\* element value, `next` the index after the value.
RECURSIVE ParseValue(_, _)
RECURSIVE ParseItems(_, _, _)
ParseValue(raw, i) ==
    IF i > Len(raw) THEN ParseFail
    ELSE IF raw[i].c = "{"
        THEN [ok |-> TRUE, list |-> FALSE, val |-> <<raw[i].obj>>, next |-> i + 1]
    ELSE IF raw[i] = DQ
        THEN IF StringEnd(raw, i + 1) = 0 THEN ParseFail
             ELSE [ok |-> TRUE, list |-> FALSE, val |-> <<NonDict("string")>>,
                   next |-> StringEnd(raw, i + 1) + 1]
    ELSE IF raw[i] = LB
        THEN IF i + 1 <= Len(raw) /\ raw[i + 1] = RB
             THEN [ok |-> TRUE, list |-> TRUE, val |-> <<>>, next |-> i + 2]
             ELSE ParseItems(raw, i + 1, <<>>)
    ELSE ParseFail

\* The elements of a list after its "[" or after a ",", up to its "]"
ParseItems(raw, i, acc) ==
    LET v == ParseValue(raw, i)
        item == IF v.list THEN NonDict("list") ELSE v.val[1]
    IN  IF ~v.ok THEN ParseFail
        ELSE IF v.next > Len(raw) THEN ParseFail
        ELSE IF raw[v.next] = RB
            THEN [ok |-> TRUE, list |-> TRUE, val |-> Append(acc, item), next |-> v.next + 1]
        ELSE IF raw[v.next] = COMMA
            THEN ParseItems(raw, v.next + 1, Append(acc, item))
        ELSE ParseFail

\* json.loads(raw): the whole text must be one value; JSONDecodeError otherwise
Loads(raw) ==
    LET v == ParseValue(raw, 1)
    IN  IF v.ok /\ v.next = Len(raw) + 1 THEN v ELSE ParseFail

----------------------------------------------------------------------------
(* The registry in the config store *)

\* no MONITORING_SERVERS entry
Missing == [present |-> FALSE]

Stored(raw) == [present |-> TRUE, raw |-> raw]

\* context.get_env("MONITORING_SERVERS", "[]")
get_env(st) == IF st.present THEN st.raw ELSE <<LB, RB>>

\* StripQuotes with the double-quote case only
StripQuotes_DoubleOnly(raw) ==
    IF raw # <<>> /\ Len(raw) >= 2 /\ raw[1] = DQ /\ raw[Len(raw)] = DQ
    THEN SubSeq(raw, 2, Len(raw) - 1)
    ELSE raw

\* The quote stripping of _load_servers
StripQuotes(raw) ==
    IF raw # <<>> /\ Len(raw) >= 2
    THEN IF \/ (raw[1] = SQ /\ raw[Len(raw)] = SQ)
            \/ (raw[1] = DQ /\ raw[Len(raw)] = DQ)
         THEN SubSeq(raw, 2, Len(raw) - 1)
         ELSE raw
    ELSE raw

\* ServerMonitoringPlugin._load_servers: the list it returns
_load_servers(st) ==
    LET raw == StripQuotes(get_env(st))
        parsed == IF raw # <<>> THEN Loads(raw)
                  ELSE [ok |-> TRUE, list |-> TRUE, val |-> <<>>]
        servers == IF parsed.ok THEN parsed
                   ELSE [ok |-> TRUE, list |-> TRUE, val |-> <<>>]
    IN  IF servers.list THEN servers.val ELSE <<>>

----------------------------------------------------------------------------
(* The network.  One machine, H, and one web server.                       *)
(*   echo: what `ping` to H does: "reply" (exit status 0), "noreply" (a    *)
(*         non-zero exit status), "timeout" (subprocess.TimeoutExpired)    *)
(*   tcp:  whether H accepts a TCP connection on SshPort                   *)
(*   web:  the status code the web server answers a GET with, 0 when the   *)
(*         request fails in transport (requests raises)                    *)

H == <<"h">>

U == <<"u">>

SshPort == 22

Nets == [echo : {"reply", "noreply", "timeout"}, tcp : BOOLEAN, web : {0, 200, 404, 500}]

\* str(n) for an integer n
RECURSIVE NatStr(_)
NatStr(n) == IF n < 10 THEN <<Digits[n + 1]>> ELSE NatStr(n \div 10) \o <<Digits[(n % 10) + 1]>>

IntStr(n) == IF n < 0 THEN <<"-">> \o NatStr(0 - n) ELSE NatStr(n)

SchemeSep == <<":", "/", "/">>

\* the URLs the web server is reached at
ServedUrls ==
    {U} \cup {scheme \o SchemeSep \o H \o tail :
                scheme \in {<<"h", "t", "t", "p">>, <<"h", "t", "t", "p", "s">>},
                tail \in {<<>>, <<":">> \o IntStr(SshPort)}}

\* subprocess.run(["ping", ..., host]): what it does
Echo(host, n) == IF host = H THEN n.echo ELSE "noreply"

\* requests.get(url): the status code, 0 when it raises
HttpGet(url, n) == IF url \in ServedUrls THEN n.web ELSE 0

----------------------------------------------------------------------------
(* handler.py: MonitoringHandler *)

PING == <<"p", "i", "n", "g">>
HTTP == <<"h", "t", "t", "p">>
HTTPS == <<"h", "t", "t", "p", "s">>
SSH == <<"s", "s", "h">>

Unknown == <<"U", "n", "k", "n", "o", "w", "n">>

\* MonitoringHandler._check_ping
_check_ping(host, n) ==
    IF host = <<>> \/ host = None THEN Returned(FALSE)
    ELSE IF Echo(host, n) = "timeout" THEN Returned(FALSE)
    ELSE Returned(Echo(host, n) = "reply")

\* _check_http taking only a status below 400 for a reachable server
_check_http_Below400(url, n) ==
    IF url = <<>> THEN Returned(FALSE)
    ELSE IF HttpGet(url, n) = 0 THEN Returned(FALSE)
    ELSE Returned(HttpGet(url, n) < 400)

\* MonitoringHandler._check_http
_check_http(url, n) ==
    IF url = <<>> THEN Returned(FALSE)
    ELSE IF HttpGet(url, n) = 0 THEN Returned(FALSE)
    ELSE Returned(HttpGet(url, n) < 500)

\* The URL _check_server probes for an http/https target
TargetUrl(check_type, host, server) ==
    LET url == Get(server, "url", <<>>)
        hasPort == "port" \in DOMAIN server /\ server["port"] # 0
    IN  IF url # <<>> THEN url
        ELSE IF hasPort THEN check_type \o SchemeSep \o host \o <<":">> \o IntStr(server["port"])
        ELSE check_type \o SchemeSep \o host

\* A descriptor whose fields _check_server cannot read: server.get fails
\* on what is no dict, .lower() on a type that is no str
Malformed(server) == ~IsDict(server) \/ Get(server, "type", PING) = None

\* MonitoringHandler._check_server: the result dict, or the exception that
\* leaves it.  The fields are read before the try block.
_check_server(server, n) ==
    IF Malformed(server) THEN Raised("AttributeError")
    ELSE
        LET name == Get(server, "name", Unknown)
            check_type == Lower(Get(server, "type", PING))
            host == Get(server, "host", <<>>)
            result == [name |-> name, host |-> host, type |-> check_type, online |-> FALSE]
            probe == IF check_type = HTTP \/ check_type = HTTPS
                     THEN _check_http(TargetUrl(check_type, host, server), n)
                     ELSE _check_ping(host, n)
        IN  IF probe.kind = "return"
            THEN Returned([result EXCEPT !.online = probe.value])
            ELSE Returned(result @@ ("error" :> probe.exc))

\* MonitoringHandler.check_all over `servers`: the results so far are in acc
RECURSIVE CheckAllFrom(_, _, _)
CheckAllFrom(servers, n, acc) ==
    IF servers = <<>> THEN Returned([results |-> acc])
    ELSE LET r == _check_server(Head(servers), n)
         IN  IF r.kind = "raise" THEN r
             ELSE CheckAllFrom(Tail(servers), n, Append(acc, r.value))

\* MonitoringHandler.check_all
check_all(servers, n) == CheckAllFrom(servers, n, <<>>)

\* "online" / "offline"
StatusWord(online) ==
    IF online THEN <<"o", "n", "l", "i", "n", "e">>
    ELSE <<"o", "f", "f", "l", "i", "n", "e">>

\* MonitoringHandler._format_single: f"{name} is {status}." in both languages
_format_single(result, language) ==
    result.name \o <<" ", "i", "s", " ">> \o StatusWord(result.online) \o <<".">>

\* "No servers are configured."
MsgNoServers ==
    <<"N", "o", " ", "s", "e", "r", "v", "e", "r", "s", " ", "a", "r", "e",
      " ", "c", "o", "n", "f", "i", "g", "u", "r", "e", "d", ".">>

\* "Er zijn geen servers geconfigureerd."
MsgGeenServers ==
    <<"E", "r", " ", "z", "i", "j", "n", " ", "g", "e", "e", "n", " ", "s",
      "e", "r", "v", "e", "r", "s", " ", "g", "e", "c", "o", "n", "f", "i",
      "g", "u", "r", "e", "e", "r", "d", ".">>

\* sep.join(strs)
RECURSIVE Join(_, _)
Join(strs, sep) ==
    IF strs = <<>> THEN <<>>
    ELSE IF Len(strs) = 1 THEN strs[1]
    ELSE strs[1] \o sep \o Join(Tail(strs), sep)

\* [r["name"] for r in results if r["online"] == online]
RECURSIVE NamesWhere(_, _)
NamesWhere(results, online) ==
    IF results = <<>> THEN <<>>
    ELSE IF Head(results).online = online
        THEN <<Head(results).name>> \o NamesWhere(Tail(results), online)
    ELSE NamesWhere(Tail(results), online)

\* f"{len(rs)} server{'s' if len(rs) != 1 else ''} online: {names}"
FormatPart(names, online) ==
    NatStr(Len(names)) \o <<" ", "s", "e", "r", "v", "e", "r">>
        \o (IF Len(names) # 1 THEN <<"s">> ELSE <<>>)
        \o <<" ">> \o StatusWord(online) \o <<":", " ">> \o Join(names, <<",", " ">>)

\* MonitoringHandler._format_all
_format_all(results, language) ==
    LET online == NamesWhere(results, TRUE)
        offline == NamesWhere(results, FALSE)
        parts == (IF online # <<>> THEN <<FormatPart(online, TRUE)>> ELSE <<>>)
                    \o (IF offline # <<>> THEN <<FormatPart(offline, FALSE)>> ELSE <<>>)
    IN  IF results = <<>>
        THEN (IF language = "nl" THEN MsgGeenServers ELSE MsgNoServers)
        ELSE Join(parts, <<".", " ">>) \o <<".">>

\* name in text: name occurs in text as a substring
IsSubstring(name, text) ==
    \E i \in 1..(Len(text) - Len(name) + 1) : SubSeq(text, i, i + Len(name) - 1) = name

\* MonitoringHandler.handle: the loop over self.servers from `rest` on, then
\* the fall-back to check_all
RECURSIVE HandleFrom(_, _, _, _, _)
HandleFrom(rest, servers, text_lower, language, n) ==
    IF rest = <<>>
    THEN LET results == check_all(servers, n)
         IN  IF results.kind = "raise" THEN results
             ELSE Returned([text |-> _format_all(results.value.results, language)])
    ELSE IF ~IsDict(Head(rest)) \/ Get(Head(rest), "name", <<>>) = None
        THEN Raised("AttributeError")
    ELSE LET name == Lower(Get(Head(rest), "name", <<>>))
             result == _check_server(Head(rest), n)
         IN  IF name # <<>> /\ IsSubstring(name, text_lower)
             THEN IF result.kind = "raise" THEN result
                  ELSE Returned([text |-> _format_single(result.value, language)])
             ELSE HandleFrom(Tail(rest), servers, text_lower, language, n)

\* MonitoringHandler.handle
handle(text, language, servers, n) == HandleFrom(servers, servers, Lower(text), language, n)

----------------------------------------------------------------------------
(* The plugin's state *)

NoHandler == [set |-> FALSE]

\* MonitoringHandler(servers)
MonitoringHandler(servers) == [set |-> TRUE, servers |-> servers]

NoCall == [op |-> "none"]

\* a completed call: what was called, with what, the store entry it found,
\* and how it ended
Call(op, input, before, res) == [op |-> op, input |-> input, before |-> before, res |-> res]

NoInput == [none |-> TRUE]

InitNet == [echo |-> "reply", tcp |-> TRUE, web |-> 200]

\* the host's threads that may run the plugin's methods at the same time
Threads == {"t1", "t2"}

\* a thread that is in no call of the plugin
Idle == [pc |-> "idle"]

NoThreads == [t \in Threads |-> Idle]

----------------------------------------------------------------------------
(* server_monitoring.py: the plugin's lifecycle and polling entry *)

\* The methods class MonitoringHandler defines.  It defines no get_alerts,
\* get_full_status or update_servers.
HandlerMethods ==
    {"__init__", "handle", "check_all", "_check_server", "_check_ping",
     "_check_http", "_format_single", "_format_all"}

\* self._handler.<method>(...) for a method the plugin calls and the
\* handler may lack: the attribute lookup raises AttributeError
HandlerCall(method) ==
    IF method \in HandlerMethods THEN Returned([called |-> method])
    ELSE Raised("AttributeError")

\* ServerMonitoringPlugin.check_all: the alert query of the polling loop
plugin_check_all(h) ==
    IF h.set THEN HandlerCall("get_alerts")
    ELSE Returned([alerts |-> <<>>])

\* ServerMonitoringPlugin._save_servers: the store entry it writes, and the
\* exception that leaves it after the write, if any
_save_servers(servers, h) ==
    [store |-> Stored(Dumps(servers)),
     res |-> IF h.set THEN HandlerCall("update_servers") ELSE Returned(NoInput)]

----------------------------------------------------------------------------
(* server_monitoring.py: the administrative actions.  Each gives the       *)
(* outcome of the call and the store entry it leaves.                      *)

\* "Server name is required"
MsgNameRequired ==
    <<"S", "e", "r", "v", "e", "r", " ", "n", "a", "m", "e", " ", "i",
      "s", " ", "r", "e", "q", "u", "i", "r", "e", "d">>

\* "URL is required for HTTP(S)"
MsgUrlRequired ==
    <<"U", "R", "L", " ", "i", "s", " ", "r", "e", "q", "u", "i", "r",
      "e", "d", " ", "f", "o", "r", " ", "H", "T", "T", "P", "(", "S",
      ")">>

\* "Host is required for "
MsgHostRequiredFor ==
    <<"H", "o", "s", "t", " ", "i", "s", " ", "r", "e", "q", "u", "i",
      "r", "e", "d", " ", "f", "o", "r", " ">>

\* "Type must be ping, http, https, or ssh"
MsgBadType ==
    <<"T", "y", "p", "e", " ", "m", "u", "s", "t", " ", "b", "e", " ",
      "p", "i", "n", "g", ",", " ", "h", "t", "t", "p", ",", " ", "h",
      "t", "t", "p", "s", ",", " ", "o", "r", " ", "s", "s", "h">>

\* "Invalid server index"
MsgBadIndex ==
    <<"I", "n", "v", "a", "l", "i", "d", " ", "s", "e", "r", "v", "e",
      "r", " ", "i", "n", "d", "e", "x">>

Outcome(res, st) == [res |-> res, store |-> st]

NoError == <<>>

\* _action_add_server: the fields it reads from the form
AddFields(data) ==
    [name |-> Strip(Get(data, "name", <<>>)),
     type |-> Lower(Strip(Get(data, "type", PING))),
     host |-> Strip(Get(data, "host", <<>>)),
     port |-> Strip(Get(data, "port", <<>>)),
     url |-> Strip(Get(data, "url", <<>>))]

\* AddError without the check that an http/https target has a url
AddError_NoUrlCheck(f) ==
    IF f.name = <<>> THEN MsgNameRequired
    ELSE IF f.type \in {PING, SSH} /\ f.host = <<>> THEN MsgHostRequiredFor \o Upper(f.type)
    ELSE IF f.type \notin {PING, HTTP, HTTPS, SSH} THEN MsgBadType
    ELSE NoError

\* _action_add_server: the error its validation answers with, NoError when
\* the fields pass
AddError(f) ==
    IF f.name = <<>> THEN MsgNameRequired
    ELSE IF f.type \in {HTTP, HTTPS} /\ f.url = <<>> THEN MsgUrlRequired
    ELSE IF f.type \in {PING, SSH} /\ f.host = <<>> THEN MsgHostRequiredFor \o Upper(f.type)
    ELSE IF f.type \notin {PING, HTTP, HTTPS, SSH} THEN MsgBadType
    ELSE NoError

\* _action_add_server: the record it builds; int(port) raises ValueError
AddRecord(f) ==
    LET base == [name |-> f.name, type |-> f.type, host |-> f.host]
        withPort == IF f.port # <<>> THEN base @@ ("port" :> IntOf(f.port)) ELSE base
    IN  IF f.port # <<>> /\ ~IntParses(f.port) THEN Raised("ValueError")
        ELSE Returned(IF f.url # <<>> THEN withPort @@ ("url" :> f.url) ELSE withPort)

\* ServerMonitoringPlugin._action_add_server
_action_add_server(data, st, h) ==
    LET f == AddFields(data)
        server == AddRecord(f)
        saved == _save_servers(Append(_load_servers(st), server.value), h)
    IN  IF AddError(f) # NoError THEN Outcome(Returned([error |-> AddError(f)]), st)
        ELSE IF server.kind = "raise" THEN Outcome(server, st)
        ELSE IF saved.res.kind = "raise" THEN Outcome(saved.res, saved.store)
        ELSE Outcome(Returned([success |-> TRUE, server |-> server.value]), saved.store)

\* servers.pop(index), index counted from 0
Pop(servers, index) ==
    SubSeq(servers, 1, index) \o SubSeq(servers, index + 2, Len(servers))

\* ServerMonitoringPlugin._action_delete_server
_action_delete_server(index, st, h) ==
    LET servers == _load_servers(st)
        saved == _save_servers(Pop(servers, index), h)
    IN  IF index < 0 \/ index >= Len(servers)
            THEN Outcome(Returned([error |-> MsgBadIndex]), st)
        ELSE IF saved.res.kind = "raise" THEN Outcome(saved.res, saved.store)
        ELSE Outcome(Returned([success |-> TRUE, removed |-> servers[index + 1]]), saved.store)

\* ServerMonitoringPlugin._action_test_server: the check of one entry by a
\* handler built over the stored list
_action_test_server(index, st, n) ==
    LET servers == _load_servers(st)
    IN  IF index < 0 \/ index >= Len(servers) THEN Returned([error |-> MsgBadIndex])
        ELSE _check_server(servers[index + 1], n)

\* _action_update_server: the fields it reads from the form
UpdateFields(data) ==
    [name |-> Strip(Get(data, "name", <<>>)),
     type |-> Lower(Strip(Get(data, "type", PING))),
     host |-> Strip(Get(data, "host", <<>>)),
     port |-> Strip(Get(data, "port", <<>>)),
     url |-> Strip(Get(data, "url", <<>>))]

\* UpdateError asking every type for a host
UpdateError_HostForAll(f) ==
    IF f.name = <<>> THEN MsgNameRequired
    ELSE IF f.type \in {HTTP, HTTPS} /\ f.url = <<>> THEN MsgUrlRequired
    ELSE IF f.host = <<>> THEN MsgHostRequiredFor \o Upper(f.type)
    ELSE IF f.type \notin {PING, HTTP, HTTPS, SSH} THEN MsgBadType
    ELSE NoError

\* UpdateError without the check that a ping/ssh target has a host
UpdateError_NoHostCheck(f) ==
    IF f.name = <<>> THEN MsgNameRequired
    ELSE IF f.type \in {HTTP, HTTPS} /\ f.url = <<>> THEN MsgUrlRequired
    ELSE IF f.type \notin {PING, HTTP, HTTPS, SSH} THEN MsgBadType
    ELSE NoError

\* _action_update_server: the error its validation answers with, NoError
\* when the fields pass
UpdateError(f) ==
    IF f.name = <<>> THEN MsgNameRequired
    ELSE IF f.type \in {HTTP, HTTPS} /\ f.url = <<>> THEN MsgUrlRequired
    ELSE IF f.type \in {PING, SSH} /\ f.host = <<>> THEN MsgHostRequiredFor \o Upper(f.type)
    ELSE IF f.type \notin {PING, HTTP, HTTPS, SSH} THEN MsgBadType
    ELSE NoError

\* _action_update_server: the record it builds; int(port) raises ValueError
UpdateRecord(f) ==
    LET base == [name |-> f.name, type |-> f.type, host |-> f.host]
        withPort == IF f.port # <<>> THEN base @@ ("port" :> IntOf(f.port)) ELSE base
    IN  IF f.port # <<>> /\ ~IntParses(f.port) THEN Raised("ValueError")
        ELSE Returned(IF f.url # <<>> THEN withPort @@ ("url" :> f.url) ELSE withPort)

\* _action_update_server appending the record instead of replacing the
\* entry at index
_action_update_server_Append(index, data, st, h) ==
    LET servers == _load_servers(st)
        f == UpdateFields(data)
        server == UpdateRecord(f)
        saved == _save_servers(Append(servers, server.value), h)
    IN  IF index < 0 \/ index >= Len(servers)
            THEN Outcome(Returned([error |-> MsgBadIndex]), st)
        ELSE IF UpdateError(f) # NoError THEN Outcome(Returned([error |-> UpdateError(f)]), st)
        ELSE IF server.kind = "raise" THEN Outcome(server, st)
        ELSE IF saved.res.kind = "raise" THEN Outcome(saved.res, saved.store)
        ELSE Outcome(Returned([success |-> TRUE, server |-> server.value]), saved.store)

\* ServerMonitoringPlugin._action_update_server
_action_update_server(index, data, st, h) ==
    LET servers == _load_servers(st)
        f == UpdateFields(data)
        server == UpdateRecord(f)
        saved == _save_servers([servers EXCEPT ![index + 1] = server.value], h)
    IN  IF index < 0 \/ index >= Len(servers)
            THEN Outcome(Returned([error |-> MsgBadIndex]), st)
        ELSE IF UpdateError(f) # NoError THEN Outcome(Returned([error |-> UpdateError(f)]), st)
        ELSE IF server.kind = "raise" THEN Outcome(server, st)
        ELSE IF saved.res.kind = "raise" THEN Outcome(saved.res, saved.store)
        ELSE Outcome(Returned([success |-> TRUE, server |-> server.value]), saved.store)

\* ServerMonitoringPlugin._action_full_status.  last_check is 0 for "never"
\* and 1 for the time of the call.
_action_full_status(st, h, n) ==
    LET servers == _load_servers(st)
        results == check_all(servers, n)
    IN  IF h.set THEN HandlerCall("get_full_status")
        ELSE IF servers = <<>> THEN Returned([servers |-> <<>>, last_check |-> 0])
        ELSE IF results.kind = "raise" THEN results
        ELSE Returned([servers |-> results.value.results, last_check |-> 1])

----------------------------------------------------------------------------
(* Actions of the plugin *)

\* hist after a step other than a status query: the next status query is
\* not in immediate succession to the last one
Moved(h) == [h EXCEPT !.statuses = <<>>]

\* ServerMonitoringPlugin.on_enable.  The new handler has observed nothing.
OnEnable ==
    /\ ~handler.set
    /\ handler' = MonitoringHandler(_load_servers(store))
    /\ last' = Call("on_enable", NoInput, store, Returned(NoInput))
    /\ hist' = Moved([hist EXCEPT !.seen = {}])
    /\ UNCHANGED <<store, net, threads>>

\* ServerMonitoringPlugin.on_disable
OnDisable ==
    /\ handler.set
    /\ handler' = NoHandler
    /\ last' = Call("on_disable", NoInput, store, Returned(NoInput))
    /\ hist' = Moved(hist)
    /\ UNCHANGED <<store, net, threads>>

\* handle_api_action("servers/add", data)
AddServer(data) ==
    LET o == _action_add_server(data, store, handler)
    IN  /\ store' = o.store
        /\ last' = Call("servers/add", [data |-> data], store, o.res)
        /\ hist' = Moved(hist)
        /\ UNCHANGED <<handler, net, threads>>

\* handle_api_action("servers/<index>/delete", {})
DeleteServer(index) ==
    LET o == _action_delete_server(index, store, handler)
    IN  /\ store' = o.store
        /\ last' = Call("servers/delete", [index |-> index], store, o.res)
        /\ hist' = Moved(hist)
        /\ UNCHANGED <<handler, net, threads>>

\* The name of the entry at `index` (from 0) of the registry in st, None
\* when there is no such entry or it has no name
NameAt(st, index) ==
    IF index < Len(_load_servers(st)) /\ "name" \in DOMAIN _load_servers(st)[index + 1]
    THEN _load_servers(st)[index + 1].name
    ELSE None

\* handle_api_action("servers/<index>/update", data).  hist remembers the
\* names whose entry was replaced under the same name since the last pass.
UpdateServer(index, data) ==
    LET o == _action_update_server(index, data, store, handler)
    IN  /\ store' = o.store
        /\ last' = Call("servers/update", [index |-> index, data |-> data], store, o.res)
        /\ hist' = IF o.store # store /\ NameAt(o.store, index) = NameAt(store, index)
                   THEN Moved([hist EXCEPT !.edited = @ \cup {NameAt(store, index)}])
                   ELSE Moved(hist)
        /\ UNCHANGED <<handler, net, threads>>

\* The online verdict of every named target of the handler's list in
\* network n: what a pass over them observes
Verdicts(h, n) ==
    IF ~h.set THEN [name \in {} |-> FALSE]
    ELSE LET named == {i \in 1..Len(h.servers) :
                          ~Malformed(h.servers[i]) /\ "name" \in DOMAIN h.servers[i]}
         IN  [name \in {h.servers[i].name : i \in named} |->
                 _check_server(h.servers[CHOOSE i \in named : h.servers[i].name = name], n).value.online]

\* One pass of the polling loop: plugin.check_all().  hist keeps the last
\* two passes: the verdicts of the targets at the pass, the names among
\* them that the handler observes for the first time, the names edited
\* since the pass before, whether the status was queried since the pass
\* before, and what the pass returned.
Poll ==
    /\ last' = Call("check_all", NoInput, store, plugin_check_all(handler))
    /\ hist' = [passes |-> (IF hist.passes = <<>> THEN <<>> ELSE <<hist.passes[Len(hist.passes)]>>)
                             \o <<[verdicts |-> Verdicts(handler, net),
                                   fresh |-> DOMAIN Verdicts(handler, net) \ hist.seen,
                                   edited |-> hist.edited,
                                   queried |-> hist.queried,
                                   res |-> plugin_check_all(handler)]>>,
                 seen |-> hist.seen \cup DOMAIN Verdicts(handler, net),
                 edited |-> {},
                 queried |-> FALSE,
                 statuses |-> <<>>]
    /\ UNCHANGED <<store, handler, net, threads>>

\* The machine H starts or stops answering echo requests
EchoChange(e) ==
    /\ e # net.echo
    /\ net' = [net EXCEPT !.echo = e]
    /\ hist' = Moved(hist)
    /\ UNCHANGED <<store, handler, last, threads>>

\* handle_api_action("servers/status", {}).  hist keeps the outcomes of the
\* last two status queries made with nothing in between.
Status ==
    LET res == _action_full_status(store, handler, net)
    IN  /\ last' = Call("servers/status", NoInput, store, res)
        /\ hist' = [hist EXCEPT
                        !.queried = TRUE,
                        !.statuses = (IF @ = <<>> THEN <<>> ELSE <<@[Len(@)]>>) \o <<res>>]
        /\ UNCHANGED <<store, handler, net, threads>>

NoHist == [passes |-> <<>>, seen |-> {}, edited |-> {}, queried |-> FALSE, statuses |-> <<>>]

----------------------------------------------------------------------------
(* Calls made by threads of the host at the same time.  A call is split    *)
(* where it reads or writes what the threads share: the store entry and    *)
(* self._handler.  A thread's record keeps its local variables; `first`    *)
(* says that no other call had begun when it began, `found` is the store   *)
(* entry it loaded.                                                        *)

NoneBegun == \A u \in Threads : threads[u].pc = "idle"

\* a call that has ended
Done(t, op, input, found, first, res) ==
    [pc |-> "done", op |-> op, input |-> input, found |-> found, first |-> first, res |-> res]

\* _action_add_server up to servers.append(server): the form is read and
\* validated, the record built, the list loaded
AddBegin(t, data) ==
    LET f == AddFields(data)
        server == AddRecord(f)
        input == [data |-> data]
    IN  /\ threads[t].pc = "idle"
        /\ threads' = [threads EXCEPT ![t] =
              IF AddError(f) # NoError
                  THEN Done(t, "servers/add", input, store, NoneBegun,
                            Returned([error |-> AddError(f)]))
              ELSE IF server.kind = "raise"
                  THEN Done(t, "servers/add", input, store, NoneBegun, server)
              ELSE [pc |-> "loaded", op |-> "servers/add", input |-> input,
                    found |-> store, first |-> NoneBegun,
                    servers |-> Append(_load_servers(store), server.value),
                    value |-> [success |-> TRUE, server |-> server.value]]]
        /\ UNCHANGED <<store, handler, net, last, hist>>

\* _action_delete_server up to servers.pop(index): the list is loaded, the
\* index checked, the entry removed
DeleteBegin(t, index) ==
    LET servers == _load_servers(store)
        input == [index |-> index]
    IN  /\ threads[t].pc = "idle"
        /\ threads' = [threads EXCEPT ![t] =
              IF index < 0 \/ index >= Len(servers)
                  THEN Done(t, "servers/delete", input, store, NoneBegun,
                            Returned([error |-> MsgBadIndex]))
              ELSE [pc |-> "loaded", op |-> "servers/delete", input |-> input,
                    found |-> store, first |-> NoneBegun,
                    servers |-> Pop(servers, index),
                    value |-> [success |-> TRUE, removed |-> servers[index + 1]]]]
        /\ UNCHANGED <<store, handler, net, last, hist>>

\* self._save_servers(servers) and the return of the add or the delete
SaveEnd(t) ==
    LET c == threads[t]
        saved == _save_servers(c.servers, handler)
        res == IF saved.res.kind = "raise" THEN saved.res ELSE Returned(c.value)
    IN  /\ c.pc = "loaded"
        /\ store' = saved.store
        /\ threads' = [threads EXCEPT ![t] = Done(t, c.op, c.input, c.found, c.first, res)]
        /\ last' = Call(c.op, c.input, c.found, res)
        /\ UNCHANGED <<handler, net, hist>>

\* the verdicts of the last polling pass, none when there was no pass
PriorVerdicts == IF hist.passes = <<>> THEN [name \in {} |-> FALSE]
                 ELSE hist.passes[Len(hist.passes)].verdicts

\* plugin.check_all up to `if self._handler:`.  The record keeps what the
\* pass is to compare: the verdicts of the last pass before it and the
\* verdicts of the targets now; `overlap` says that another pass is under
\* way.
PassBegin(t) ==
    /\ threads[t].pc = "idle"
    /\ threads' = [threads EXCEPT ![t] =
          [pc |-> IF handler.set THEN "calling" ELSE "done",
           op |-> "check_all",
           prior |-> PriorVerdicts,
           verdicts |-> Verdicts(handler, net),
           overlap |-> \E u \in Threads \ {t} : threads[u].pc = "calling",
           res |-> Returned([alerts |-> <<>>])]]
    /\ UNCHANGED <<store, handler, net, last, hist>>

\* plugin.check_all: `return self._handler.get_alerts()`
PassCall(t) ==
    /\ threads[t].pc = "calling"
    /\ threads' = [threads EXCEPT ![t] =
          [@ EXCEPT !.pc = "done",
                    !.res = IF handler.set THEN HandlerCall("get_alerts")
                            ELSE Raised("AttributeError")]]
    /\ UNCHANGED <<store, handler, net, last, hist>>

----------------------------------------------------------------------------
(* Registry entries as add and update store them *)

TA == [name |-> <<"a">>, type |-> PING, host |-> H]

TB == [name |-> <<"b">>, type |-> SSH, host |-> H, port |-> SshPort]

TC == [name |-> <<"c">>, type |-> HTTP, host |-> <<>>, url |-> U]

----------------------------------------------------------------------------
(* Spec: the plugin from setup on: enabling and disabling, polling passes, *)
(* registry edits and a changing network.                                  *)

\* the add/update forms submitted: target "a" on H, pinged, with or without
\* a port
PollInputs ==
    {[name |-> <<"a">>, host |-> H, port |-> port] : port \in {<<>>, <<"2", "2">>}}

\* an add while the registry has fewer than MaxPolled entries
AddWithin(data) == Len(_load_servers(store)) < MaxPolled /\ AddServer(data)

Init ==
    /\ store = Missing
    /\ handler = NoHandler
    /\ net = InitNet
    /\ last = NoCall
    /\ hist = NoHist
    /\ threads = NoThreads

Next ==
    \/ OnEnable
    \/ OnDisable
    \/ Poll
    \/ \E e \in {"reply", "noreply", "timeout"} : EchoChange(e)
    \/ \E data \in PollInputs : AddWithin(data)
    \/ \E index \in 0..MaxPolled - 1, data \in PollInputs : UpdateServer(index, data)
    \/ \E index \in 0..MaxPolled - 1 : DeleteServer(index)

Spec == Init /\ [][Next]_vars

----------------------------------------------------------------------------
(* SpecStatus: polling passes and status queries of the plugin, enabled    *)
(* and disabled in turn, over a registry of at most MaxPolled entries and  *)
(* a changing network.                                                     *)

PolledRegistries == UNION {[1..k -> {TA, TC}] : k \in 0..MaxPolled}

InitStatus ==
    /\ store \in {Stored(Dumps(servers)) : servers \in PolledRegistries}
    /\ handler = NoHandler
    /\ net = InitNet
    /\ last = NoCall
    /\ hist = NoHist
    /\ threads = NoThreads

NextStatus ==
    \/ OnEnable
    \/ OnDisable
    \/ Poll
    \/ Status
    \/ \E e \in {"reply", "noreply", "timeout"} : EchoChange(e)

SpecStatus == InitStatus /\ [][NextStatus]_vars

----------------------------------------------------------------------------
(* SpecAdmin: one administrative call, with every submitted form, on every *)
(* registry of at most MaxServers entries, the plugin enabled or not.      *)

Absent == <<"absent">>

\* a form: the keys whose value is Absent are left out
Form(name, type, host, port, url) ==
    LET all == [name |-> name, type |-> type, host |-> host, port |-> port, url |-> url]
        keys == {k \in DOMAIN all : all[k] # Absent}
    IN  [k \in keys |-> all[k]]

AdminInputs ==
    {Form(name, type, host, port, url) :
        name \in {<<" ">>, <<" ", "a">>},
        type \in {PING, <<" ", "S", "S", "H">>, HTTP, <<"H", "t", "t", "p", "s">>, <<"t", "c", "p">>},
        host \in {<<>>, H},
        port \in {Absent, <<"2", "2">>, <<"x">>},
        url \in {<<>>, U}}

AdminRegistries == UNION {[1..k -> {TA, TB, TC}] : k \in 0..MaxServers}

InitAdmin ==
    /\ store \in {Missing} \cup {Stored(Dumps(servers)) : servers \in AdminRegistries}
    /\ handler \in {NoHandler, MonitoringHandler(_load_servers(store))}
    /\ net = InitNet
    /\ last = NoCall
    /\ hist = NoHist
    /\ threads = NoThreads

\* the one call of a behaviour
AddOnce(data) == last = NoCall /\ AddServer(data)

UpdateOnce(index, data) == last = NoCall /\ UpdateServer(index, data)

DeleteOnce(index) == last = NoCall /\ DeleteServer(index)

NextAdmin ==
    \/ \E data \in AdminInputs : AddOnce(data)
    \/ \E index \in 0..MaxServers, data \in AdminInputs : UpdateOnce(index, data)
    \/ \E index \in 0..MaxServers : DeleteOnce(index)

SpecAdmin == InitAdmin /\ [][NextAdmin]_vars

----------------------------------------------------------------------------
(* SpecRegistry: any sequence of adds, updates and deletes from the empty  *)
(* registry on, the plugin enabled or not, the registry growing to at most *)
(* MaxServers entries.                                                     *)

\* the forms submitted: a blank or a given name, three spellings of a type,
\* and either a host or a url
RegistryInputs ==
    {Form(name, type, target.host, Absent, target.url) :
        name \in {<<" ">>, <<" ", "a">>},
        type \in {<<" ", "S", "S", "H">>, <<"H", "t", "t", "p", "s">>, <<"t", "c", "p">>},
        target \in {[host |-> H, url |-> <<>>], [host |-> <<>>, url |-> U]}}

InitRegistry ==
    /\ store = Missing
    /\ handler \in {NoHandler, MonitoringHandler(_load_servers(store))}
    /\ net = InitNet
    /\ last = NoCall
    /\ hist = NoHist
    /\ threads = NoThreads

\* an add while the registry has fewer than MaxServers entries
AddUpTo(data) == Len(_load_servers(store)) < MaxServers /\ AddServer(data)

NextRegistry ==
    \/ \E data \in RegistryInputs : AddUpTo(data)
    \/ \E index \in 0..MaxServers, data \in RegistryInputs : UpdateServer(index, data)
    \/ \E index \in 0..MaxServers : DeleteServer(index)

SpecRegistry == InitRegistry /\ [][NextRegistry]_vars

----------------------------------------------------------------------------
(* SpecRace: one add or delete by each thread, their steps interleaved, on *)
(* a registry of at most MaxPolled entries, the plugin enabled or not.     *)

InitRace ==
    /\ store \in {Stored(Dumps(servers)) : servers \in PolledRegistries}
    /\ handler \in {NoHandler, MonitoringHandler(_load_servers(store))}
    /\ net = InitNet
    /\ last = NoCall
    /\ hist = NoHist
    /\ threads = NoThreads

NextRace ==
    \/ \E t \in Threads, data \in RegistryInputs : AddBegin(t, data)
    \/ \E t \in Threads, index \in 0..MaxPolled : DeleteBegin(t, index)
    \/ \E t \in Threads : SaveEnd(t)

SpecRace == InitRace /\ [][NextRace]_vars

----------------------------------------------------------------------------
(* SpecPasses: polling passes of the loop, one further pass by each thread *)
(* at any time, their steps interleaved, over a registry of at most        *)
(* MaxPolled entries and a changing network.                               *)

InitPasses ==
    /\ store \in {Stored(Dumps(servers)) : servers \in PolledRegistries}
    /\ handler \in {NoHandler, MonitoringHandler(_load_servers(store))}
    /\ net = InitNet
    /\ last = NoCall
    /\ hist = NoHist
    /\ threads = NoThreads

NextPasses ==
    \/ Poll
    \/ \E e \in {"reply", "noreply", "timeout"} : EchoChange(e)
    \/ \E t \in Threads : PassBegin(t)
    \/ \E t \in Threads : PassCall(t)

SpecPasses == InitPasses /\ [][NextPasses]_vars

----------------------------------------------------------------------------
(* SpecLoad: _load_servers over every stored text of at most MaxRawLen     *)
(* tokens.                                                                 *)

RawAlphabet == {SQ, DQ, LB, RB, COMMA, JUNK, ObjTok(TA)}

RawTexts == UNION {[1..k -> RawAlphabet] : k \in 0..MaxRawLen}

InitLoad ==
    /\ store \in {Missing} \cup {Stored(raw) : raw \in RawTexts}
    /\ handler = NoHandler
    /\ net = InitNet
    /\ last = NoCall
    /\ hist = NoHist
    /\ threads = NoThreads

\* handle_api_action("servers/list")
ListServers ==
    /\ last' = Call("servers/list", NoInput, store, Returned([servers |-> _load_servers(store)]))
    /\ UNCHANGED <<store, handler, net, hist, threads>>

NextLoad == ListServers

SpecLoad == InitLoad /\ [][NextLoad]_vars

----------------------------------------------------------------------------
(* SpecCheck: a handler built over every stored target list of at most     *)
(* MaxTargets descriptors (as on_enable, test_connection, servers/<i>/test *)
(* and servers/status build it from whatever list the store holds), under  *)
(* every network.                                                          *)

\* {"name": "d", "type": null, "host": "h"}
TNull == [name |-> <<"d">>, type |-> None, host |-> H]

\* a list element that is a JSON string
TStr == NonDict("string")

\* {"type": "HTTPS", "host": "h", "port": 22}
TSynth == [type |-> <<"H", "T", "T", "P", "S">>, host |-> H, port |-> SshPort]

Descriptors == {TA, TB, TC, TNull, TStr, TSynth}

TargetLists == UNION {[1..k -> Descriptors] : k \in 0..MaxTargets}

InitCheck ==
    /\ store \in {Stored(Dumps(servers)) : servers \in TargetLists}
    /\ handler = MonitoringHandler(_load_servers(store))
    /\ net \in Nets
    /\ last = NoCall
    /\ hist = NoHist
    /\ threads = NoThreads

\* handler.check_all()
HandlerCheckAll ==
    /\ handler.set
    /\ last' = Call("handler.check_all", NoInput, store, check_all(handler.servers, net))
    /\ UNCHANGED <<store, handler, net, hist, threads>>

\* the queries handed to handle: "A?" names target a, "c b" names the
\* targets c and b, "z" names none
Queries == {<<"A", "?">>, <<"c", " ", "b">>, <<"z">>}

\* handler.handle(text, language)
HandlerHandle(text, language) ==
    /\ handler.set
    /\ last' = Call("handler.handle", [text |-> text, language |-> language], store,
                    handle(text, language, handler.servers, net))
    /\ UNCHANGED <<store, handler, net, hist, threads>>

\* handle_api_action("servers/<index>/test", {})
TestServer(index) ==
    /\ last' = Call("servers/test", [index |-> index], store,
                    _action_test_server(index, store, net))
    /\ UNCHANGED <<store, handler, net, hist, threads>>

\* the URLs handed to _check_http: none, the served one, one nothing
\* answers at
Urls == {<<>>, U, <<"x">>}

\* handler._check_http(url)
HandlerCheckHttp(url) ==
    /\ handler.set
    /\ last' = Call("handler._check_http", [url |-> url], store,
                    LET r == _check_http(url, net)
                    IN  IF r.kind = "return" THEN Returned([online |-> r.value]) ELSE r)
    /\ UNCHANGED <<store, handler, net, hist, threads>>

NextCheck ==
    \/ HandlerCheckAll
    \/ \E url \in Urls : HandlerCheckHttp(url)
    \/ \E text \in Queries, language \in {"en", "nl"} : HandlerHandle(text, language)
    \/ \E index \in 0..MaxTargets : TestServer(index)

SpecCheck == InitCheck /\ [][NextCheck]_vars

----------------------------------------------------------------------------
(* Claims *)

IsJsonList(raw) == Loads(raw).ok /\ Loads(raw).list

WrappedIn(raw, q) == Len(raw) >= 2 /\ raw[1] = q /\ raw[Len(raw)] = q

Inner(raw) == SubSeq(raw, 2, Len(raw) - 1)

\* C9: whatever the registry key holds, load raises nothing; it returns the
\* stored list when the text is a JSON list, bare or wrapped in one pair of
\* matching quotes, and the empty list for every other text (missing,
\* empty, malformed, JSON that is no list).
C9_LoadNeverFails ==
    last.op = "servers/list" =>
        /\ last.res.kind = "return"
        /\ last.res.value.servers =
              IF ~store.present THEN <<>>
              ELSE IF IsJsonList(store.raw) THEN Loads(store.raw).val
              ELSE IF \E q \in {SQ, DQ} : WrappedIn(store.raw, q) /\ IsJsonList(Inner(store.raw))
                  THEN Loads(Inner(store.raw)).val
              ELSE <<>>

\* C9 witness: a one-element list wrapped in single quotes was loaded
C9_Witness ==
    /\ last.op = "servers/list"
    /\ store = Stored(<<SQ, LB, ObjTok(TA), RB, SQ>>)
    /\ last.res = Returned([servers |-> <<TA>>])

\* C4: check_all returns one result per target and lets no exception
\* escape; a target whose check fails unexpectedly (a malformed descriptor
\* included) gets online = FALSE and an error message, and every other
\* target gets the result it has when checked alone.
C4_FaultIsolation ==
    last.op = "handler.check_all" =>
        /\ last.res.kind = "return"
        /\ Len(last.res.value.results) = Len(handler.servers)
        /\ \A i \in 1..Len(handler.servers) :
              IF Malformed(handler.servers[i])
              THEN /\ ~last.res.value.results[i].online
                   /\ "error" \in DOMAIN last.res.value.results[i]
              ELSE Returned(last.res.value.results[i]) = _check_server(handler.servers[i], net)

\* C5: check_all returns as many results as there are targets, the i-th
\* carrying the name of the i-th target.
C5_OrderPreservation ==
    last.op = "handler.check_all" =>
        /\ last.res.kind = "return"
        /\ Len(last.res.value.results) = Len(handler.servers)
        /\ \A i \in 1..Len(handler.servers) :
              (IsDict(handler.servers[i]) /\ "name" \in DOMAIN handler.servers[i])
                  => last.res.value.results[i].name = handler.servers[i].name

\* whether a TCP connection to host:port can be established
TcpConnect(host, port, n) == host = H /\ port = SshPort /\ n.tcp

\* C10: the checker run for a target is the one of its check_type: an ssh
\* target is online iff a TCP connection to host:port (port 22 by default)
\* can be established, a ping target iff the echo is answered, an http or
\* https target iff the GET is answered with a status below 500.
C10_DispatchByType ==
    (last.op = "handler.check_all" /\ last.res.kind = "return") =>
        \A i \in 1..Len(handler.servers) :
            LET t == handler.servers[i]
                r == last.res.value.results[i]
            IN  /\ r.type = SSH =>
                      (r.online <=> TcpConnect(Get(t, "host", <<>>), Get(t, "port", 22), net))
                /\ r.type = PING => (r.online <=> Echo(Get(t, "host", <<>>), net) = "reply")
                /\ r.type \in {HTTP, HTTPS} =>
                      (r.online <=> HttpGet(TargetUrl(r.type, r.host, t), net) \in 1..499)

\* whether `text` names the target t: t has a non-empty name that occurs in
\* the text, letter case aside
Names(text, t) ==
    /\ IsDict(t)
    /\ Get(t, "name", <<>>) \notin {<<>>, None}
    /\ IsSubstring(Lower(t.name), Lower(text))

\* the first target of the list that the text names, 0 when it names none
FirstNamed(servers, text) ==
    IF \E i \in 1..Len(servers) : Names(text, servers[i])
    THEN CHOOSE i \in 1..Len(servers) :
            /\ Names(text, servers[i])
            /\ \A j \in 1..(i - 1) : ~Names(text, servers[j])
    ELSE 0

\* what the check of target t finds: a target that cannot be checked is
\* offline
Checked(t, n) ==
    IF ~IsDict(t) THEN [name |-> Unknown, online |-> FALSE]
    ELSE IF Malformed(t) THEN [name |-> Get(t, "name", Unknown), online |-> FALSE]
    ELSE _check_server(t, n).value

\* C11: handle reports the check of the first target, in registry order,
\* whose non-empty name occurs in the query text (letter case aside), and
\* of that target only; when the text names no target it reports the check
\* of every target.
C11_NameResolution ==
    last.op = "handler.handle" =>
        LET servers == handler.servers
            i == FirstNamed(servers, last.input.text)
        IN  /\ last.res.kind = "return"
            /\ last.res.value.text =
                  IF i > 0 THEN _format_single(Checked(servers[i], net), last.input.language)
                  ELSE _format_all([j \in 1..Len(servers) |-> Checked(servers[j], net)],
                                   last.input.language)

\* a response with a status below 500 is received from url
Responds(url, n) == HttpGet(url, n) \in 1..499

\* the entry that the last servers/test call was about
Tested == _load_servers(last.before)[last.input.index + 1]

\* the last call tested an http or https target
TestedHttp ==
    /\ last.op = "servers/test"
    /\ last.input.index < Len(_load_servers(last.before))
    /\ ~Malformed(Tested)
    /\ Lower(Get(Tested, "type", PING)) \in {HTTP, HTTPS}

\* C16: the HTTP(S) checker answers online iff a response with a status
\* below 500 is received: a 5xx response, an empty URL and a request that
\* fails in transport give offline, and nothing is raised; the result of
\* an http or https target is that answer for the target's URL.
C16_HttpVerdict ==
    /\ last.op = "handler._check_http" =>
          /\ last.res.kind = "return"
          /\ last.res.value.online <=>
                (last.input.url # <<>> /\ Responds(last.input.url, net))
    /\ TestedHttp =>
          /\ last.res.kind = "return"
          /\ last.res.value.online <=>
                Responds(TargetUrl(Lower(Tested.type), Get(Tested, "host", <<>>), Tested), net)

\* C16 witness: the test of the http target c, whose server answers 404,
\* found it online
C16_Witness ==
    /\ TestedHttp
    /\ Tested = TC
    /\ net.web = 404
    /\ last.res.kind = "return"
    /\ last.res.value.online

----------------------------------------------------------------------------
(* Claims about the polling passes (Spec) *)

LastPass == hist.passes[Len(hist.passes)]

\* the alert events of a returned pass that are about `name`
AlertsFor(res, name) ==
    {i \in 1..Len(res.value.alerts) : res.value.alerts[i].name = name}

\* C1: a pass returns no alert event for a target the handler observes for
\* the first time, whether it is found online or offline.
C1_NoAlertOnFirstSight ==
    hist.passes # <<>> =>
        \A name \in LastPass.fresh :
            /\ LastPass.res.kind = "return"
            /\ AlertsFor(LastPass.res, name) = {}

\* C2: of two consecutive passes of a handler, the second returns exactly
\* one alert event for a target whose online verdict differs from the one
\* of the first pass, and none for a target whose verdict is the same.
C2_AlertOnlyOnTransition ==
    Len(hist.passes) = 2 =>
        \A name \in (DOMAIN hist.passes[1].verdicts \cap DOMAIN hist.passes[2].verdicts)
                        \ hist.passes[2].fresh :
            /\ hist.passes[2].res.kind = "return"
            /\ Cardinality(AlertsFor(hist.passes[2].res, name)) =
                  IF hist.passes[1].verdicts[name] # hist.passes[2].verdicts[name] THEN 1 ELSE 0

\* C3: when an update has replaced a target's fields under the same name
\* between two passes and its online verdict is the same at both, the
\* second pass returns no alert for it and does not take it for a target
\* seen for the first time.
C3_UpdateKeepsTrackerState ==
    Len(hist.passes) = 2 =>
        \A name \in hist.passes[2].edited \cap DOMAIN hist.passes[1].verdicts
                        \cap DOMAIN hist.passes[2].verdicts :
            hist.passes[1].verdicts[name] = hist.passes[2].verdicts[name] =>
                /\ hist.passes[2].res.kind = "return"
                /\ AlertsFor(hist.passes[2].res, name) = {}
                /\ name \notin hist.passes[2].fresh

\* the online verdicts of a returned status: one per target, in order
OnlineOf(res) == [i \in 1..Len(res.value.servers) |-> res.value.servers[i].online]

\* C14: a status query emits no alert; of two status queries with nothing
\* in between, both return and the online verdicts of every target are the
\* same; and of two consecutive passes with a status query between them,
\* the second reports each change of a target's verdict exactly once and
\* nothing else.
C14_StatusDoesNotDisturb ==
    /\ (last.op = "servers/status" /\ last.res.kind = "return") =>
          "alerts" \notin DOMAIN last.res.value
    /\ Len(hist.statuses) = 2 =>
          /\ hist.statuses[1].kind = "return"
          /\ hist.statuses[2].kind = "return"
          /\ OnlineOf(hist.statuses[1]) = OnlineOf(hist.statuses[2])
    /\ (Len(hist.passes) = 2 /\ hist.passes[2].queried) =>
          \A name \in (DOMAIN hist.passes[1].verdicts \cap DOMAIN hist.passes[2].verdicts)
                          \ hist.passes[2].fresh :
              /\ hist.passes[2].res.kind = "return"
              /\ Cardinality(AlertsFor(hist.passes[2].res, name)) =
                    IF hist.passes[1].verdicts[name] # hist.passes[2].verdicts[name]
                    THEN 1 ELSE 0

\* C15: the list that a pass of the enabled plugin probes is the persisted
\* registry as the adds, updates and deletes made since enabling have left
\* it: the same targets in the same order.
C15_PassUsesCurrentRegistry ==
    (last.op = "check_all" /\ handler.set) => handler.servers = _load_servers(store)

----------------------------------------------------------------------------
(* Claims about the administrative calls (SpecAdmin) *)

\* the call answered with a structured error result
ErrorResult(res) == res.kind = "return" /\ "error" \in DOMAIN res.value

Answered(res, msg) == res = Returned([error |-> msg])

\* the call refused the form: an error result, or int() raising on the port
Refused(res) == ErrorResult(res) \/ res = Raised("ValueError")

GivenName(data) == Strip(Get(data, "name", <<>>))

GivenType(data) == Lower(Strip(Get(data, "type", PING)))

GivenHost(data) == Strip(Get(data, "host", <<>>))

GivenPort(data) == Strip(Get(data, "port", <<>>))

GivenUrl(data) == Strip(Get(data, "url", <<>>))

\* "Host is required for PING"
MsgHostPing == MsgHostRequiredFor \o <<"P", "I", "N", "G">>

\* "Host is required for SSH"
MsgHostSsh == MsgHostRequiredFor \o <<"S", "S", "H">>

\* what C6 says of the type, host and url of the form of the last add
AddMessages(data) ==
    /\ (GivenType(data) \in {HTTP, HTTPS} /\ GivenUrl(data) = <<>>)
          => Answered(last.res, MsgUrlRequired)
    /\ (GivenType(data) = PING /\ GivenHost(data) = <<>>) => Answered(last.res, MsgHostPing)
    /\ (GivenType(data) = SSH /\ GivenHost(data) = <<>>) => Answered(last.res, MsgHostSsh)
    /\ GivenType(data) \notin {PING, HTTP, HTTPS, SSH} => Answered(last.res, MsgBadType)

\* C6 as stated: an add with type http/https and no url is answered "URL is
\* required for HTTP(S)", with type ping or ssh and no host "Host is
\* required for PING" or "... SSH", with any other type "Type must be ping,
\* http, https, or ssh"; a blank name is refused; a refused add leaves the
\* registry as it was.
C6_AddValidation_AsStated ==
    last.op = "servers/add" =>
        /\ AddMessages(last.input.data)
        /\ GivenName(last.input.data) = <<>> => ErrorResult(last.res)
        /\ Refused(last.res) => store = last.before

\* C6 (amended): the three messages are the answers to a form whose name
\* is not blank; a blank name is refused whatever the other fields are;
\* a refused add leaves the registry as it was.
C6_AddValidation ==
    last.op = "servers/add" =>
        /\ GivenName(last.input.data) # <<>> => AddMessages(last.input.data)
        /\ GivenName(last.input.data) = <<>> => ErrorResult(last.res)
        /\ Refused(last.res) => store = last.before

\* C6 witness: an add of a named http target without url was answered with
\* the URL message and left a registry of two entries alone
C6_Witness ==
    /\ last.op = "servers/add"
    /\ GivenName(last.input.data) # <<>>
    /\ GivenType(last.input.data) = HTTP
    /\ Answered(last.res, MsgUrlRequired)
    /\ store = last.before
    /\ Len(_load_servers(store)) = 2

\* C7: an update at a valid index is refused iff the add of the same form
\* is, with the same answer; when both accept they store the same record:
\* the trimmed name, the lowercased type, the port as an integer only when
\* one is given, the url only when one is given.
C7_AddUpdateSameValidation ==
    (last.op = "servers/update" /\ last.input.index < Len(_load_servers(last.before))) =>
        LET data == last.input.data
            add == _action_add_server(data, last.before, handler)
            added == _load_servers(add.store)
            updated == _load_servers(store)[last.input.index + 1]
        IN  /\ Refused(last.res) <=> Refused(add.res)
            /\ last.res = add.res
            /\ ~Refused(last.res) =>
                  /\ updated = added[Len(added)]
                  /\ updated.name = GivenName(data)
                  /\ updated.type = GivenType(data)
                  /\ "port" \in DOMAIN updated <=> GivenPort(data) # <<>>
                  /\ "port" \in DOMAIN updated => updated.port = IntOf(GivenPort(data))
                  /\ "url" \in DOMAIN updated <=> GivenUrl(data) # <<>>
                  /\ "url" \in DOMAIN updated => updated.url = GivenUrl(data)

\* C7 witness: an update with the form {" a", " SSH", "h", "22"} stored the
\* record {a, ssh, h, 22} over an entry of another name
C7_Witness ==
    /\ last.op = "servers/update"
    /\ last.input.index = 1
    /\ _load_servers(last.before) = <<TA, TC>>
    /\ last.res = Returned([success |-> TRUE,
                            server |-> [name |-> <<"a">>, type |-> SSH, host |-> H, port |-> 22]])
    /\ _load_servers(store) = <<TA, [name |-> <<"a">>, type |-> SSH, host |-> H, port |-> 22]>>

\* C8: an add or an update (at a valid index) whose port is given and is
\* no integer is answered with an error result, no exception leaves the
\* call, and the registry is as it was.
C8_BadPortIsErrorResult ==
    (/\ last.op \in {"servers/add", "servers/update"}
     /\ last.op = "servers/update" => last.input.index < Len(_load_servers(last.before))
     /\ GivenPort(last.input.data) # <<>>
     /\ ~IntParses(GivenPort(last.input.data))) =>
        /\ ErrorResult(last.res)
        /\ store = last.before

\* the registry the last call found, and the one it left
Before == _load_servers(last.before)

After == _load_servers(store)

\* the call returned success
Success(res) == res.kind = "return" /\ "success" \in DOMAIN res.value

\* list `after` is list `before` without its entry at index (from 0)
Without(after, before, index) ==
    /\ Len(after) = Len(before) - 1
    /\ \A j \in 1..Len(after) : after[j] = IF j <= index THEN before[j] ELSE before[j + 1]

\* list `after` is list `before` but for the entry at index (from 0), which
\* is `entry`
Replaced(after, before, index, entry) ==
    /\ Len(after) = Len(before)
    /\ \A j \in 1..Len(after) : after[j] = IF j = index + 1 THEN entry ELSE before[j]

\* C17: a delete at an index within the registry leaves the registry
\* without the entry at that index, the other entries unchanged and in
\* order, and returns the removed entry; at any other index it answers
\* "Invalid server index" and leaves the registry as it was.
C17_DeleteRemovesOne ==
    last.op = "servers/delete" =>
        IF last.input.index < Len(Before)
        THEN /\ Without(After, Before, last.input.index)
             /\ last.res = Returned([success |-> TRUE, removed |-> Before[last.input.index + 1]])
        ELSE /\ Answered(last.res, MsgBadIndex)
             /\ store = last.before

\* the form passes the validation: a name, a type of the four with the
\* url or host it needs, a port that is an integer if one is given
ValidFields(data) ==
    /\ GivenName(data) # <<>>
    /\ GivenType(data) \in {PING, HTTP, HTTPS, SSH}
    /\ GivenType(data) \in {HTTP, HTTPS} => GivenUrl(data) # <<>>
    /\ GivenType(data) \in {PING, SSH} => GivenHost(data) # <<>>
    /\ GivenPort(data) # <<>> => IntParses(GivenPort(data))

\* the target record of a valid form
TargetOf(data) ==
    LET base == [name |-> GivenName(data), type |-> GivenType(data), host |-> GivenHost(data)]
        withPort == IF GivenPort(data) # <<>>
                    THEN base @@ ("port" :> IntOf(GivenPort(data))) ELSE base
    IN  IF GivenUrl(data) # <<>> THEN withPort @@ ("url" :> GivenUrl(data)) ELSE withPort

\* C18: an update with valid fields at an index within the registry leaves
\* a registry of the same length whose entry at that index is the new
\* target record and whose other entries are unchanged; at any other index
\* it answers "Invalid server index", whatever the fields are, and leaves
\* the registry as it was.
C18_UpdateReplacesOne ==
    last.op = "servers/update" =>
        /\ (last.input.index < Len(Before) /\ ValidFields(last.input.data)) =>
              Replaced(After, Before, last.input.index, TargetOf(last.input.data))
        /\ last.input.index >= Len(Before) =>
              /\ Answered(last.res, MsgBadIndex)
              /\ store = last.before

\* C18 witness: an update with the form {" a", " SSH", "h", "22"} replaced
\* the second of the entries a, c and left the first alone
C18_Witness ==
    /\ last.op = "servers/update"
    /\ last.input.index = 1
    /\ Before = <<TA, TC>>
    /\ Success(last.res)
    /\ ValidFields(last.input.data)
    /\ GivenType(last.input.data) = SSH
    /\ GivenPort(last.input.data) # <<>>
    /\ After = <<TA, [name |-> <<"a">>, type |-> SSH, host |-> H, port |-> 22]>>

\* C19: an add, update or delete either returns success, and the registry
\* holds the change, or does not return success, and the registry is as the
\* call found it.
C19_AllOrNothing ==
    last.op \in {"servers/add", "servers/update", "servers/delete"} =>
        IF Success(last.res)
        THEN CASE last.op = "servers/add" -> After = Append(Before, last.res.value.server)
               [] last.op = "servers/update" ->
                     Replaced(After, Before, last.input.index, last.res.value.server)
               [] last.op = "servers/delete" -> Without(After, Before, last.input.index)
        ELSE store = last.before

----------------------------------------------------------------------------
(* Claims about the registry over sequences of calls (SpecRegistry) *)

\* a stored target as the registry is to hold it
WellFormedTarget(t) ==
    /\ IsDict(t)
    /\ {"name", "type", "host"} \subseteq DOMAIN t
    /\ Strip(t.name) # <<>>
    /\ t.type \in {PING, HTTP, HTTPS, SSH}
    /\ t.type = Lower(t.type)
    /\ t.type \in {HTTP, HTTPS} => Get(t, "url", <<>>) # <<>>
    /\ t.type \in {PING, SSH} => t.host # <<>>

\* C12: after any sequence of adds, updates and deletes from the empty
\* registry on, every stored target has a non-blank name, a lowercase type
\* among ping, http, https and ssh, a url if it is http or https and a host
\* if it is ping or ssh.
C12_RegistryWellFormed ==
    \A i \in 1..Len(_load_servers(store)) : WellFormedTarget(_load_servers(store)[i])

\* C12 witness: an update has put an ssh target in place of the first of
\* two stored entries, which an add of the form "Https" had stored
C12_Witness ==
    /\ last.op = "servers/update"
    /\ store # last.before
    /\ Len(_load_servers(store)) = 2
    /\ _load_servers(last.before)[1].type = HTTPS
    /\ _load_servers(store)[1].type = SSH

----------------------------------------------------------------------------
(* Claims about calls made at the same time (SpecPasses, SpecRace) *)

\* the number of alert events about `name` that the pass of thread t returned
AlertCount(t, name) == Cardinality(AlertsFor(threads[t].res, name))

\* two passes ran at the same time, after the same last pass and on the
\* same verdicts of the targets
ConcurrentPasses(t, u) ==
    /\ t # u
    /\ threads[t].pc = "done" /\ threads[t].op = "check_all"
    /\ threads[u].pc = "done" /\ threads[u].op = "check_all"
    /\ threads[t].overlap \/ threads[u].overlap
    /\ threads[t].prior = threads[u].prior
    /\ threads[t].verdicts = threads[u].verdicts

\* C13: when two passes run at the same time, a target whose verdict
\* differs from the one of the last pass gets exactly one alert event from
\* the two passes together, and a target whose verdict is the same gets
\* none.
C13_ConcurrentPassesSerialized ==
    \A t, u \in Threads :
        ConcurrentPasses(t, u) =>
            \A name \in DOMAIN threads[t].prior \cap DOMAIN threads[t].verdicts :
                /\ threads[t].res.kind = "return"
                /\ threads[u].res.kind = "return"
                /\ AlertCount(t, name) + AlertCount(u, name) =
                      IF threads[t].prior[name] # threads[t].verdicts[name] THEN 1 ELSE 0

\* the outcome of the call c made alone on the store entry st
Alone(c, st) ==
    IF c.op = "servers/add" THEN _action_add_server(c.input.data, st, handler)
    ELSE _action_delete_server(c.input.index, st, handler)

\* the calls of t and u have the results, and leave the registry, that they
\* have when t's call is made first and u's after it, from the entry
\* `start` on
AsOneAfterTheOther(t, u, start) ==
    /\ Alone(threads[t], start).res = threads[t].res
    /\ Alone(threads[u], Alone(threads[t], start).store).res = threads[u].res
    /\ _load_servers(Alone(threads[u], Alone(threads[t], start).store).store) = After

\* C20: when two mutations whose steps interleave both return success, the
\* registry holds the effect of both: it is, and the entry a delete
\* returns is, what the two calls made one after the other give, in one
\* order or the other.
C20_NoLostUpdate ==
    \A t, u \in Threads :
        (/\ t # u
         /\ threads[t].pc = "done" /\ threads[t].op # "check_all" /\ Success(threads[t].res)
         /\ threads[u].pc = "done" /\ threads[u].op # "check_all" /\ Success(threads[u].res)
         /\ threads[t].first) =>
            \/ AsOneAfterTheOther(t, u, threads[t].found)
            \/ AsOneAfterTheOther(u, t, threads[t].found)

====
